---- MODULE Spec2Model ----
(***************************************************************************)
(* A model of portalocker's lock-acquisition engine (utils.py): Lock,      *)
(* RLock, the scoped-resource protocol of LockBase and the bounded         *)
(* semaphore, run by several processes against one filesystem.             *)
(*                                                                         *)
(* Time is discrete.  time.sleep(check_interval) suspends its caller for   *)
(* exactly check_interval units; every other statement takes no time (the  *)
(* clock advances only while every process is outside a call or asleep).   *)
(* acquire() only ever compares time.time() with a time.time() of the same *)
(* call, so each process reads the clock counted from the start of its     *)
(* running call.                                                           *)
(*                                                                         *)
(* A step runs a process from one suspension point (the call, the end of a *)
(* sleep) to the next (a sleep, the return, the raise).  The statements in *)
(* between reach the shared filesystem through OS calls that commute with  *)
(* the other processes' steps: open() and close() of a handle that holds   *)
(* no lock, the atomic lock()/unlock(), and a truncation that only the     *)
(* lock's holder performs.                                                 *)
(***************************************************************************)
EXTENDS Integers, Sequences, FiniteSets, TLC

VARIABLES
    now,        \* now[p]: time.time() as p reads it, counted from the start
                \* of p's running call
    lock,       \* lock[p]: the Lock instance of process p (its attributes)
    pc,         \* pc[p]: the statement process p is at
    op,         \* op[p]: the method p is running or has just left
    loc,        \* loc[p]: the local variables of p's running acquire()
    wake,       \* wake[p]: when p's time.sleep() returns
    exc,        \* exc[p]: the exception p's call has raised
    obs,        \* obs[p]: what p's running call has done so far (history)
    fhs,        \* fhs[h]: the file the open handle h is on, NoFile once closed
    flock,      \* flock[f]: the handle holding the OS lock on file f
    content,    \* content[f]: what file f holds
    blk,        \* blk[p]: where p is in its guarded (with) block
    sem,        \* sem[p]: the BoundedSemaphore instance of process p
    ctl,        \* ctl[p]: where p is in its semaphore's acquire()
    usr,        \* usr[p]: what the program of p has counted of its calls
    atm         \* the files and the writers of open_atomic

lockVars == <<now, lock, pc, op, loc, wake, exc, obs, fhs, flock, content>>
callerVars == <<blk, sem, ctl, usr, atm>>
vars == <<now, lock, pc, op, loc, wake, exc, obs, fhs, flock, content, blk, sem, ctl,
          usr, atm>>

----------------------------------------------------------------------------
(* Bounds of the model *)

NumProcs == 2
MaxTimeout == 2
MaxInterval == 2
FhPerProc == 2
Maximum == 2
MaxChunks == 2
MaxRounds == 2

\* the processes that share LockPath
Procs == 1..NumProcs
\* the processes that share a semaphore: one more than it has slots
SemProcs == 1..(Maximum + 1)
AllProcs == Procs \cup SemProcs
Timeouts == 0..MaxTimeout
Intervals == 1..MaxInterval

(* Program constants *)

DEFAULT_TIMEOUT == 5
DEFAULT_FAIL_WHEN_LOCKED == FALSE
LOCK_METHOD_SHARED == {"SHARED", "NON_BLOCKING"}
LOCK_METHOD == {"EXCLUSIVE", "NON_BLOCKING"}

----------------------------------------------------------------------------
(* Values *)

None == <<>>
Some(v) == <<v>>

\* filenames: the semaphore's slot files by their number, and the path the
\* Locks are on
Slots == 0..(Maximum - 1)
LockPath == Maximum
Files == Slots \cup {LockPath}
NoFile == -1

Handles == AllProcs \X (1..FhPerProc)
NoFh == <<0, 0>>

\* Open modes, as the characters of the mode string.
Modes == {<<"a">>, <<"w", "b">>}

NoExc == [type |-> "none", attempt |-> 0]
AlreadyLocked(n) == [type |-> "AlreadyLocked", attempt |-> n]
\* exceptions.LockException(exception): carries the exception it was built from
LockException(e) == [type |-> "LockException", attempt |-> e.attempt, of |-> e.type]
\* the OS error of the n-th attempt of a call: not an exception of the lock
\* module
OSError(n) == [type |-> "OSError", attempt |-> n]

NoLocals ==
    [timeout |-> 0, check_interval |-> 0, fail_when_locked |-> FALSE,
     fh |-> NoFh, timeout_end |-> 0, exception |-> NoExc]

NoObs == [attempts |-> 0, sleeps |-> 0, had_fh |-> FALSE, os_errors |-> 0]

----------------------------------------------------------------------------
(* Strings *)

\* 'w' in mode
Contains(mode, ch) == \E i \in DOMAIN mode : mode[i] = ch

\* mode.replace('w', 'a')
Replace(mode, old, new) ==
    [i \in DOMAIN mode |-> IF mode[i] = old THEN new ELSE mode[i]]

----------------------------------------------------------------------------
(* The filesystem and the platform lock primitive *)

\* open(filename, mode): a 'w' mode truncates the file when it is opened
OpenTruncates(mode) == Contains(mode, "w")

\* the handle open() returns to p: the first one p does not have open
NewFh(p) ==
    CHOOSE h \in Handles :
        /\ h[1] = p
        /\ fhs[h] = NoFile
        /\ \A g \in Handles : (g[1] = p /\ fhs[g] = NoFile) => h[2] <= g[2]

CanOpen(p) == \E h \in Handles : h[1] = p /\ fhs[h] = NoFile

\* portalocker.lock(fh, flags) on a fresh handle of file f: with EXCLUSIVE and
\* NON_BLOCKING it succeeds iff no open handle holds the lock on f, and raises
\* AlreadyLocked otherwise
LockOk(f, flags) == "EXCLUSIVE" \in flags => flock[f] = NoFh

\* the lock table after portalocker.lock(h, flags) on file f
LockEffect(h, f, flags) ==
    IF LockOk(f, flags) THEN [flock EXCEPT ![f] = h] ELSE flock

\* portalocker.unlock(fh)
Unlocked(h) == [f \in Files |-> IF flock[f] = h THEN NoFh ELSE flock[f]]

NotClosed(t, h) == t

\* fh.close() on the handle table t
Closed(t, h) == [t EXCEPT ![h] = NoFile]

----------------------------------------------------------------------------
(* Lock.__init__, RLock.__init__ *)

InitModeKept(mode) == mode

\* lines 128-132: mode = mode.replace('w', 'a')
InitMode(mode) == IF Contains(mode, "w") THEN Replace(mode, "w", "a") ELSE mode

\* lines 128-132: truncate
InitTruncate(mode) == Contains(mode, "w")

LockInitDefaultFail(filename, mode, timeout, check_interval, fail_when_locked, flags) ==
    [filename |-> filename,
     mode |-> InitMode(mode),
     truncate |-> InitTruncate(mode),
     timeout |-> IF timeout = None THEN DEFAULT_TIMEOUT ELSE timeout[1],
     check_interval |-> check_interval,
     fail_when_locked |-> DEFAULT_FAIL_WHEN_LOCKED,
     flags |-> flags,
     fh |-> NoFh]

\* lines 127-145
LockInit(filename, mode, timeout, check_interval, fail_when_locked, flags) ==
    [filename |-> filename,
     mode |-> InitMode(mode),
     truncate |-> InitTruncate(mode),
     timeout |-> IF timeout = None THEN DEFAULT_TIMEOUT ELSE timeout[1],
     check_interval |-> check_interval,
     fail_when_locked |-> fail_when_locked,
     flags |-> flags,
     fh |-> NoFh]

RLockInit(filename, mode, timeout, check_interval, fail_when_locked, flags) ==
    [acquire_count |-> 0] @@
    LockInit(filename, mode, Some(timeout), check_interval, fail_when_locked, flags)

----------------------------------------------------------------------------
(* Lock.acquire *)

CoalesceInstance(arg, dflt) == dflt

\* lines 149-154: an argument that is None falls back to the instance's value
Coalesce(arg, dflt) == IF arg = None THEN dflt ELSE arg[1]

\* Lock._get_fh: open(self.filename, self.mode), on the handle table
GetFh(p) == [fhs EXCEPT ![NewFh(p)] = lock[p].filename]

\* what open(self.filename, self.mode) leaves in the files
GetFhContent(p) ==
    IF OpenTruncates(lock[p].mode)
    THEN [content EXCEPT ![lock[p].filename] = "empty"]
    ELSE content

GetLockSwallows(p) == TRUE

\* Lock._get_lock: portalocker.lock(fh, self.flags) returns (TRUE) or lets the
\* LockException through (FALSE)
GetLock(p) == LockOk(lock[p].filename, lock[p].flags)

\* Lock._prepare_fh: fh.seek(0); fh.truncate(0) when self.truncate
PrepareFh(p, c) ==
    IF lock[p].truncate THEN [c EXCEPT ![lock[p].filename] = "empty"] ELSE c

\* lines 180-182: the attempt locked the handle
Locked(p) ==
    /\ fhs' = GetFh(p)
    /\ flock' = LockEffect(NewFh(p), lock[p].filename, lock[p].flags)
    /\ content' = PrepareFh(p, GetFhContent(p))
    /\ lock' = [lock EXCEPT ![p].fh = NewFh(p)]
    /\ pc' = [pc EXCEPT ![p] = "returned"]
    /\ UNCHANGED exc

CloseFailedLeaks(p) == GetFh(p)

\* lines 163, 175: fh.close() in the except branch
CloseFailed(p) == Closed(GetFh(p), NewFh(p))

FailFastOfInstance(p, fail_when_locked) == lock[p].fail_when_locked

\* line 164: if fail_when_locked: raise
FailFast(p, fail_when_locked) == fail_when_locked

TimeoutEndForgotten(p, timeout) == now[p]

\* line 167
TimeoutEnd(p, timeout) == now[p] + timeout

\* what the environment does to one lock attempt: nothing, or an OS failure
\* of open(), of the lock call, or of the truncation
Envs == {"ok", "open_fails", "lock_fails", "prepare_fails"}

CaughtAny(e) == TRUE

\* lines 161, 174: except exceptions.LockException (AlreadyLocked is one)
Caught(e) == e.type \in {"AlreadyLocked", "LockException"}

\* what the n-th self._get_lock(fh) of the call raises: nothing (the handle is
\* locked), AlreadyLocked, or the OS error
GetLockRaises(p, n, env) ==
    IF env = "lock_fails" THEN OSError(n)
    ELSE IF GetLock(p) THEN NoExc ELSE AlreadyLocked(n)

\* the failures the environment can bring about in the state
Possible(p, env) == env = "prepare_fails" => (lock[p].truncate /\ GetLock(p))

\* lines 157, 170: open() raises, no handle is there
OpenFailed(p, n) ==
    /\ exc' = [exc EXCEPT ![p] = OSError(n)]
    /\ pc' = [pc EXCEPT ![p] = "raised"]
    /\ UNCHANGED <<lock, fhs, flock, content>>

\* lines 160, 172: the lock call raises what the except clause does not
\* catch; the handle stays as it is
LockFailed(p, e) ==
    /\ fhs' = GetFh(p)
    /\ content' = GetFhContent(p)
    /\ exc' = [exc EXCEPT ![p] = e]
    /\ pc' = [pc EXCEPT ![p] = "raised"]
    /\ UNCHANGED <<lock, flock>>

\* line 180: the handle is locked and self._prepare_fh(fh) raises, before
\* self.fh is set
PrepareFailed(p, n) ==
    /\ fhs' = GetFh(p)
    /\ flock' = LockEffect(NewFh(p), lock[p].filename, lock[p].flags)
    /\ content' = GetFhContent(p)
    /\ exc' = [exc EXCEPT ![p] = OSError(n)]
    /\ pc' = [pc EXCEPT ![p] = "raised"]
    /\ UNCHANGED lock

\* lines 147-167, 180-182: the call and its first lock attempt, in the
\* environment env
AcquireIn(p, timeout_arg, check_interval_arg, fail_when_locked_arg, env) ==
    LET timeout == Coalesce(timeout_arg, lock[p].timeout)
        check_interval == Coalesce(check_interval_arg, lock[p].check_interval)
        fail_when_locked == Coalesce(fail_when_locked_arg, lock[p].fail_when_locked)
        locals == [NoLocals EXCEPT !.timeout = timeout,
                                   !.check_interval = check_interval,
                                   !.fail_when_locked = fail_when_locked,
                                   !.fh = NewFh(p)]
        first == [NoObs EXCEPT !.attempts = 1, !.had_fh = lock[p].fh # NoFh]
        e == GetLockRaises(p, 1, env)
    IN  /\ pc[p] = "idle"
        /\ CanOpen(p)
        /\ Possible(p, env)
        /\ op' = [op EXCEPT ![p] = "acquire"]
        /\ IF env = "open_fails"
           THEN /\ OpenFailed(p, 1)
                /\ loc' = [loc EXCEPT ![p] = [locals EXCEPT !.fh = NoFh]]
                /\ obs' = [obs EXCEPT ![p] = [first EXCEPT !.attempts = 0, !.os_errors = 1]]
                /\ UNCHANGED wake
           ELSE IF e = NoExc
           THEN /\ IF env = "prepare_fails"
                   THEN /\ PrepareFailed(p, 1)
                        /\ obs' = [obs EXCEPT ![p] = [first EXCEPT !.os_errors = 1]]
                   ELSE /\ Locked(p)
                        /\ obs' = [obs EXCEPT ![p] = first]
                /\ loc' = [loc EXCEPT ![p] = locals]
                /\ UNCHANGED wake
           ELSE IF ~Caught(e)
           THEN /\ LockFailed(p, e)
                /\ loc' = [loc EXCEPT ![p] = locals]
                /\ obs' = [obs EXCEPT ![p] = [first EXCEPT !.os_errors = 1]]
                /\ UNCHANGED wake
           ELSE /\ fhs' = CloseFailed(p)
                /\ content' = GetFhContent(p)
                /\ UNCHANGED <<lock, flock>>
                /\ IF FailFast(p, fail_when_locked)
                   THEN /\ exc' = [exc EXCEPT ![p] = e]
                        /\ loc' = [loc EXCEPT ![p] = [locals EXCEPT !.exception = e]]
                        /\ obs' = [obs EXCEPT ![p] =
                                    [first EXCEPT !.os_errors = IF e.type = "OSError" THEN 1 ELSE 0]]
                        /\ pc' = [pc EXCEPT ![p] = "raised"]
                        /\ UNCHANGED wake
                   ELSE /\ loc' = [loc EXCEPT ![p] =
                                    [locals EXCEPT !.exception = e,
                                                   !.timeout_end = TimeoutEnd(p, timeout)]]
                        /\ obs' = [obs EXCEPT ![p] =
                                    [first EXCEPT !.sleeps = 1,
                                                  !.os_errors = IF e.type = "OSError" THEN 1 ELSE 0]]
                        /\ wake' = [wake EXCEPT ![p] = now[p] + check_interval]
                        /\ pc' = [pc EXCEPT ![p] = "sleeping"]
                        /\ UNCHANGED exc
        /\ UNCHANGED now

\* lock.acquire(...) when the OS calls do not fail
Acquire(p, timeout_arg, check_interval_arg, fail_when_locked_arg) ==
    AcquireIn(p, timeout_arg, check_interval_arg, fail_when_locked_arg, "ok")

TimedOutNever(p) == FALSE

\* line 176
TimedOut(p) == now[p] > loc[p].timeout_end

TimeoutContextLast(p) == AlreadyLocked(obs[p].attempts + 1)

\* line 177: exception, bound at line 161 to what the first attempt raised
TimeoutContext(p) == loc[p].exception

\* lines 168-177, 180-182: the sleep is over; a lock attempt of the poll loop,
\* in the environment env
LoopIn(p, env) ==
    LET n == obs[p].attempts + 1
        e == GetLockRaises(p, n, env)
    IN  /\ pc[p] = "sleeping"
        /\ now[p] >= wake[p]
        /\ CanOpen(p)
        /\ Possible(p, env)
        /\ IF env = "open_fails"
           THEN /\ OpenFailed(p, n)
                /\ loc' = [loc EXCEPT ![p].fh = NoFh]
                /\ obs' = [obs EXCEPT ![p].os_errors = @ + 1]
                /\ wake' = [wake EXCEPT ![p] = 0]
           ELSE IF e = NoExc
           THEN /\ IF env = "prepare_fails"
                   THEN /\ PrepareFailed(p, n)
                        /\ obs' = [obs EXCEPT ![p].attempts = n, ![p].os_errors = @ + 1]
                   ELSE /\ Locked(p)
                        /\ obs' = [obs EXCEPT ![p].attempts = n]
                /\ loc' = [loc EXCEPT ![p].fh = NewFh(p)]
                /\ wake' = [wake EXCEPT ![p] = 0]
           ELSE IF ~Caught(e)
           THEN /\ LockFailed(p, e)
                /\ loc' = [loc EXCEPT ![p].fh = NewFh(p)]
                /\ obs' = [obs EXCEPT ![p].attempts = n, ![p].os_errors = @ + 1]
                /\ wake' = [wake EXCEPT ![p] = 0]
           ELSE /\ fhs' = CloseFailed(p)
                /\ content' = GetFhContent(p)
                /\ loc' = [loc EXCEPT ![p].fh = NewFh(p)]
                /\ UNCHANGED <<lock, flock>>
                /\ IF TimedOut(p)
                   THEN /\ exc' = [exc EXCEPT ![p] = LockException(TimeoutContext(p))]
                        /\ obs' = [obs EXCEPT ![p].attempts = n,
                                              ![p].os_errors = IF e.type = "OSError" THEN @ + 1 ELSE @]
                        /\ wake' = [wake EXCEPT ![p] = 0]
                        /\ pc' = [pc EXCEPT ![p] = "raised"]
                   ELSE /\ obs' = [obs EXCEPT ![p].attempts = n, ![p].sleeps = @ + 1,
                                              ![p].os_errors = IF e.type = "OSError" THEN @ + 1 ELSE @]
                        /\ wake' = [wake EXCEPT ![p] = now[p] + loc[p].check_interval]
                        /\ UNCHANGED <<pc, exc>>
        /\ UNCHANGED <<now, op>>

\* the poll loop when the OS calls do not fail
Loop(p) == LoopIn(p, "ok")

----------------------------------------------------------------------------
(* Lock.release *)

ReleaseGuardAlways(p) == TRUE

\* line 189: if self.fh
ReleaseGuard(p) == lock[p].fh # NoFh

\* lines 187-192
Release(p) ==
    /\ pc[p] = "idle"
    /\ op' = [op EXCEPT ![p] = "release"]
    /\ obs' = [obs EXCEPT ![p] = [NoObs EXCEPT !.had_fh = lock[p].fh # NoFh]]
    /\ IF ReleaseGuard(p)
       THEN IF lock[p].fh = NoFh
            THEN \* portalocker.unlock(None) raises
                 /\ exc' = [exc EXCEPT ![p] = [type |-> "TypeError", attempt |-> 0]]
                 /\ pc' = [pc EXCEPT ![p] = "raised"]
                 /\ UNCHANGED <<lock, fhs, flock>>
            ELSE /\ flock' = Unlocked(lock[p].fh)
                 /\ fhs' = Closed(fhs, lock[p].fh)
                 /\ lock' = [lock EXCEPT ![p].fh = NoFh]
                 /\ pc' = [pc EXCEPT ![p] = "returned"]
                 /\ UNCHANGED exc
       ELSE /\ pc' = [pc EXCEPT ![p] = "returned"]
            /\ UNCHANGED <<lock, fhs, flock, exc>>
    /\ UNCHANGED <<now, loc, wake, content>>

----------------------------------------------------------------------------
(* The caller of acquire() and release() *)

\* the call is over: its locals are gone and the caller goes on
Over(p) ==
    /\ pc' = [pc EXCEPT ![p] = "idle"]
    /\ op' = [op EXCEPT ![p] = "none"]
    /\ loc' = [loc EXCEPT ![p] = NoLocals]
    /\ obs' = [obs EXCEPT ![p] = NoObs]
    /\ now' = [now EXCEPT ![p] = 0]

\* the caller has the result, or the exception
Finish(p) ==
    /\ pc[p] \in {"returned", "raised"}
    /\ Over(p)
    /\ exc' = [exc EXCEPT ![p] = NoExc]
    /\ UNCHANGED <<lock, wake, fhs, flock, content>>

\* the holder writes through the handle acquire() returned
Write(p) ==
    /\ pc[p] = "idle"
    /\ lock[p].fh # NoFh
    /\ content[fhs[lock[p].fh]] # "data"
    /\ content' = [content EXCEPT ![fhs[lock[p].fh]] = "data"]
    /\ UNCHANGED <<now, lock, pc, op, loc, wake, exc, obs, fhs, flock>>

\* time passes while every process is outside a call or asleep
Tick ==
    /\ \E p \in AllProcs : pc[p] = "sleeping"
    /\ \A p \in AllProcs : \/ pc[p] = "idle"
                           \/ pc[p] = "sleeping" /\ wake[p] > now[p]
    /\ now' = [p \in AllProcs |-> IF pc[p] = "sleeping" THEN now[p] + 1 ELSE now[p]]
    /\ UNCHANGED <<lock, pc, op, loc, wake, exc, obs, fhs, flock, content>>

----------------------------------------------------------------------------
(* Processes running one program: each constructs its own RLock (a Lock    *)
(* with a counter, whose acquire() and release() are Lock's) on LockPath,  *)
(* all with the same arguments, and calls acquire() and release() in any   *)
(* order.                                                                  *)

TimeoutArgs == {None, Some(0)}
IntervalArgs == {None}
FailArgs == {None, Some(TRUE), Some(FALSE)}

NoSem == [maximum |-> 0, timeout |-> 0, check_interval |-> 0,
          fail_when_locked |-> FALSE, lock |-> None]
NoCtl == [pc |-> "idle", tried |-> {}]
NoBlk == [pc |-> "out", pending |-> NoExc, raised |-> NoExc]
NoUsr ==
    [rounds |-> 0, faulted |-> FALSE, overrode |-> FALSE,
     args |-> <<None, None, None>>, built |-> None]
\* no temporary file
NoTemp == [exists |-> FALSE, open |-> FALSE, disk |-> 0, buf |-> 0]
\* the target holds its old content, complete; nobody is in open_atomic
NoAtm ==
    [target |-> [by |-> 0, n |-> MaxChunks],
     seen |-> [by |-> 0, n |-> MaxChunks],
     pc |-> [p \in AllProcs |-> "out"],
     temp |-> [p \in AllProcs |-> NoTemp],
     err |-> [p \in AllProcs |-> "none"],
     raised |-> [p \in AllProcs |-> "none"]]

InitIdle ==
    /\ now = [p \in AllProcs |-> 0]
    /\ pc = [p \in AllProcs |-> "idle"]
    /\ op = [p \in AllProcs |-> "none"]
    /\ loc = [p \in AllProcs |-> NoLocals]
    /\ wake = [p \in AllProcs |-> 0]
    /\ exc = [p \in AllProcs |-> NoExc]
    /\ obs = [p \in AllProcs |-> NoObs]
    /\ fhs = [h \in Handles |-> NoFile]
    /\ flock = [f \in Files |-> NoFh]
    /\ content = [f \in Files |-> "data"]
    /\ blk = [p \in AllProcs |-> NoBlk]
    /\ ctl = [p \in AllProcs |-> NoCtl]
    /\ usr = [p \in AllProcs |-> NoUsr]
    /\ atm = NoAtm

Init ==
    /\ InitIdle
    /\ \E m \in Modes, t \in Timeouts, c \in Intervals, f \in BOOLEAN :
          lock = [p \in AllProcs |-> RLockInit(LockPath, m, t, c, f, LOCK_METHOD)]
    /\ sem = [p \in AllProcs |-> NoSem]

\* lock.acquire(timeout, check_interval, fail_when_locked)
Call_Acquire(p) ==
    \E t \in TimeoutArgs, c \in IntervalArgs, f \in FailArgs :
        Acquire(p, t, c, f) /\ UNCHANGED callerVars

Call_Loop(p) == Loop(p) /\ UNCHANGED callerVars

\* lock.release()
Call_Release(p) == Release(p) /\ UNCHANGED callerVars

Call_Finish(p) == Finish(p) /\ UNCHANGED callerVars

Call_Write(p) == Write(p) /\ UNCHANGED callerVars

Clock_Tick == Tick /\ UNCHANGED callerVars

Next ==
    \/ \E p \in Procs : Call_Acquire(p)
    \/ \E p \in Procs : Call_Loop(p)
    \/ \E p \in Procs : Call_Release(p)
    \/ \E p \in Procs : Call_Finish(p)
    \/ \E p \in Procs : Call_Write(p)
    \/ Clock_Tick

Spec == Init /\ [][Next]_vars

----------------------------------------------------------------------------
(* Properties of Lock *)

Held(p) == lock[p].fh # NoFh

\* C1. Mutual exclusion: of the processes that each use their own Lock with
\* exclusive non-blocking flags on the same path, at most one is in the held
\* state (acquire() has returned, release() has not been called) at any
\* instant, and it is the one whose handle has the OS lock.
C1_MutualExclusion ==
    \A p, q \in Procs :
        (Held(p) /\ Held(q) /\ lock[p].filename = lock[q].filename) =>
            /\ p = q
            /\ flock[lock[p].filename] = lock[p].fh

\* a process holds the lock while another's attempt on the same path has failed
C1_Witness ==
    \E p, q \in Procs :
        /\ p # q
        /\ Held(p)
        /\ op[q] = "acquire"
        /\ pc[q] \in {"sleeping", "raised"}
        /\ lock[p].filename = lock[q].filename

\* C2. Timeout determinism: an acquire(timeout=T, check_interval=c) with
\* fail_when_locked false that fails (every attempt found the lock held)
\* fails with the LockException of the poll loop, and the time elapsed since
\* the start of the call is at least T and at most T + c.
C2_TimeoutDeterminism ==
    \A p \in Procs :
        (op[p] = "acquire" /\ pc[p] = "raised" /\ ~loc[p].fail_when_locked) =>
            /\ exc[p].type = "LockException"
            /\ now[p] >= loc[p].timeout
            /\ now[p] <= loc[p].timeout + loc[p].check_interval

\* B has timed out with a positive timeout on the lock A holds
C2_Witness ==
    \E a, b \in Procs :
        /\ a # b
        /\ Held(a)
        /\ op[b] = "acquire" /\ pc[b] = "raised"
        /\ exc[b].type = "LockException"
        /\ loc[b].timeout > 0
        /\ obs[b].attempts > 2

\* C3. fail_when_locked: an acquire(fail_when_locked=true) that finds the lock
\* held fails with AlreadyLocked after exactly one lock attempt, without
\* sleeping (no time has passed, the poll loop was not entered), whatever the
\* timeout and check_interval, and the handle it opened is closed.
C3_FailWhenLocked ==
    \A p \in Procs :
        (op[p] = "acquire" /\ pc[p] = "raised" /\ loc[p].fail_when_locked) =>
            /\ exc[p].type = "AlreadyLocked"
            /\ obs[p].attempts = 1
            /\ obs[p].sleeps = 0
            /\ now[p] = 0
            /\ fhs[loc[p].fh] = NoFile
            /\ \A h \in Handles : (h[1] = p /\ fhs[h] # NoFile) => h = lock[p].fh

\* an acquire(fail_when_locked=true) with a positive timeout has failed on the
\* lock another process holds
C3_Witness ==
    \E p, q \in Procs :
        /\ p # q
        /\ Held(q)
        /\ op[p] = "acquire" /\ pc[p] = "raised"
        /\ loc[p].fail_when_locked
        /\ loc[p].timeout > 0
        /\ exc[p].type = "AlreadyLocked"

C5_ReentrantCounting ==
    \A p \in Procs :
        (flock[lock[p].filename] # NoFh /\ flock[lock[p].filename] = lock[p].fh)
            <=> lock[p].acquire_count > 0

\* C6. Reentrant acquisition does not self-block: an acquire() on an RLock
\* that already holds its file lock returns; it neither waits in the poll
\* loop for its own handle nor raises.
C6_NoSelfBlock ==
    \A p \in Procs :
        (op[p] = "acquire" /\ obs[p].had_fh) => pc[p] = "returned"

\* C13. No retroactive grant: an acquire() returns a handle only from a lock
\* attempt made while the time elapsed since the start of the call does not
\* exceed the timeout; once it does, the call fails with the timeout error
\* even if the lock has become free.
C13_NoRetroactiveGrant ==
    \A p \in Procs :
        (op[p] = "acquire" /\ pc[p] = "returned") => now[p] <= loc[p].timeout

C10_ReleaseNoOp ==
    /\ [](\A p \in Procs :
            (op[p] = "release" /\ pc[p] = "returned") => lock[p].fh = NoFh)
    /\ [][\A p \in Procs :
            (pc[p] = "idle" /\ op'[p] = "release" /\ lock[p].fh = NoFh) =>
                /\ pc'[p] = "returned"
                /\ exc'[p] = NoExc
                /\ UNCHANGED <<lock, fhs, flock, content>>]_vars

\* a release() with nothing held has returned while another process holds the
\* OS lock
C10_Witness ==
    \E p, q \in Procs :
        /\ p # q
        /\ op[p] = "release" /\ pc[p] = "returned"
        /\ ~obs[p].had_fh
        /\ Held(q)
        /\ flock[lock[q].filename] = lock[q].fh

----------------------------------------------------------------------------
(* BoundedSemaphore.  __init__ is the code's; acquire() and release() are   *)
(* the specification's (4.4): the candidate slot files are tried in order   *)
(* (as numbered, or shuffled), each through a Lock with                     *)
(* fail_when_locked=True; the first Lock that succeeds is the semaphore's   *)
(* held lock, and when every slot is contended the call fails with          *)
(* AlreadyLocked.                                                           *)

\* LockBase.__init__ (lines 91-94) under BoundedSemaphore.__init__ (252-258);
\* check_interval is always given (DEFAULT_CHECK_INTERVAL is no whole number
\* of time units)
SemInit(maximum, timeout, check_interval, fail_when_locked) ==
    [maximum |-> maximum,
     lock |-> None,
     timeout |-> Coalesce(timeout, DEFAULT_TIMEOUT),
     check_interval |-> check_interval,
     fail_when_locked |-> Coalesce(fail_when_locked, DEFAULT_FAIL_WHEN_LOCKED)]

\* no Lock object
NoLock ==
    [filename |-> NoFile, mode |-> <<>>, truncate |-> FALSE, timeout |-> 0,
     check_interval |-> 0, fail_when_locked |-> FALSE, flags |-> {}, fh |-> NoFh]

\* the candidate filenames, by slot number
GetFilenames(p) == 0..(sem[p].maximum - 1)

\* Lock(filename, timeout, check_interval, fail_when_locked=True)
SemLock(p, filename) ==
    LockInit(filename, <<"a">>, Some(sem[p].timeout), sem[p].check_interval,
             TRUE, LOCK_METHOD)

\* What follows a call of Lock.acquire() or Lock.release() inside the
\* semaphore is local to the process and commutes with every step of the
\* others, so it is enough to let it run before the others go on: a process
\* starts a step on the files when no other process is within such a tail.
Quiet(p) == \A q \in SemProcs \ {p} : ctl[q].pc \in {"idle", "lock"}

\* semaphore.acquire(): the candidates are tried in order, as numbered or
\* shuffled, so the first may be any of them; self.lock = Lock(filename)
Sem_Acquire(p) ==
    /\ ctl[p].pc = "idle"
    /\ Quiet(p)
    /\ pc[p] = "idle"
    /\ sem[p].lock = None
    /\ \E filename \in GetFilenames(p) :
          /\ lock' = [lock EXCEPT ![p] = SemLock(p, filename)]
          /\ sem' = [sem EXCEPT ![p].lock = Some(filename)]
          /\ ctl' = [ctl EXCEPT ![p] = [pc |-> "lock", tried |-> {filename}]]
    /\ UNCHANGED <<now, pc, op, loc, wake, exc, obs, fhs, flock, content, blk>>
    /\ UNCHANGED <<usr, atm>>

\* self.lock.acquire()
Sem_LockAcquire(p) ==
    /\ ctl[p].pc = "lock"
    /\ Quiet(p)
    /\ Acquire(p, None, None, None)
    /\ ctl' = [ctl EXCEPT ![p].pc = "called"]
    /\ UNCHANGED <<blk, sem>>
    /\ UNCHANGED <<usr, atm>>

\* the slot is locked: the semaphore's acquire() returns its Lock
Sem_Got(p) ==
    /\ ctl[p].pc = "called"
    /\ pc[p] = "returned"
    /\ Finish(p)
    /\ ctl' = [ctl EXCEPT ![p] = NoCtl]
    /\ UNCHANGED <<blk, sem>>
    /\ UNCHANGED <<usr, atm>>

\* the slot is contended (AlreadyLocked) and candidates are left: the next
\* in the order, any not yet tried, is self.lock
Sem_Contended(p) ==
    /\ ctl[p].pc = "called"
    /\ pc[p] = "raised"
    /\ exc[p].type = "AlreadyLocked"
    /\ \E filename \in GetFilenames(p) \ ctl[p].tried :
          /\ lock' = [lock EXCEPT ![p] = SemLock(p, filename)]
          /\ sem' = [sem EXCEPT ![p].lock = Some(filename)]
          /\ ctl' = [ctl EXCEPT ![p] = [pc |-> "lock", tried |-> ctl[p].tried \cup {filename}]]
    /\ Over(p)
    /\ exc' = [exc EXCEPT ![p] = NoExc]
    /\ UNCHANGED <<wake, fhs, flock, content, blk>>
    /\ UNCHANGED <<usr, atm>>

\* the last candidate is contended too: self.lock = None, and with
\* fail_when_locked the call raises AlreadyLocked
Sem_Exhausted(p) ==
    /\ ctl[p].pc = "called"
    /\ pc[p] = "raised"
    /\ exc[p].type = "AlreadyLocked"
    /\ GetFilenames(p) \ ctl[p].tried = {}
    /\ sem[p].fail_when_locked
    /\ lock' = [lock EXCEPT ![p] = NoLock]
    /\ sem' = [sem EXCEPT ![p].lock = None]
    /\ ctl' = [ctl EXCEPT ![p].pc = "failed"]
    /\ Over(p)
    /\ exc' = [exc EXCEPT ![p] = AlreadyLocked(0)]
    /\ UNCHANGED <<wake, fhs, flock, content, blk>>
    /\ UNCHANGED <<usr, atm>>

\* the caller has the exception
Sem_Failed(p) ==
    /\ ctl[p].pc = "failed"
    /\ ctl' = [ctl EXCEPT ![p] = NoCtl]
    /\ exc' = [exc EXCEPT ![p] = NoExc]
    /\ UNCHANGED <<now, lock, pc, op, loc, wake, obs, fhs, flock, content, blk, sem>>
    /\ UNCHANGED <<usr, atm>>

\* semaphore.release(): self.lock.release(); self.lock = None
Sem_Release(p) ==
    /\ ctl[p].pc = "idle"
    /\ sem[p].lock # None
    /\ Quiet(p)
    /\ Release(p)
    /\ sem' = [sem EXCEPT ![p].lock = None]
    /\ ctl' = [ctl EXCEPT ![p].pc = "released"]
    /\ UNCHANGED blk
    /\ UNCHANGED <<usr, atm>>

\* release() has returned
Sem_Released(p) ==
    /\ ctl[p].pc = "released"
    /\ pc[p] = "returned"
    /\ lock' = [lock EXCEPT ![p] = NoLock]
    /\ ctl' = [ctl EXCEPT ![p] = NoCtl]
    /\ Over(p)
    /\ exc' = [exc EXCEPT ![p] = NoExc]
    /\ UNCHANGED <<wake, fhs, flock, content, blk, sem>>
    /\ UNCHANGED <<usr, atm>>

\* Processes that each construct their own BoundedSemaphore with the same
\* maximum, name and directory
InitSem ==
    /\ InitIdle
    /\ lock = [p \in AllProcs |-> NoLock]
    /\ sem = [p \in AllProcs |-> SemInit(Maximum, Some(MaxTimeout), MaxInterval, Some(TRUE))]

NextSem ==
    \/ \E p \in SemProcs : Sem_Acquire(p)
    \/ \E p \in SemProcs : Sem_LockAcquire(p)
    \/ \E p \in SemProcs : Sem_Got(p)
    \/ \E p \in SemProcs : Sem_Contended(p)
    \/ \E p \in SemProcs : Sem_Exhausted(p)
    \/ \E p \in SemProcs : Sem_Failed(p)
    \/ \E p \in SemProcs : Sem_Release(p)
    \/ \E p \in SemProcs : Sem_Released(p)

SpecSem == InitSem /\ [][NextSem]_vars

\* p holds a slot of the semaphore
SemHolds(p) == sem[p].lock # None /\ lock[p].fh # NoFh

\* C7. Bounded semaphore capacity: of the processes that agree on the
\* semaphore's name, directory and maximum, at most maximum hold a slot at
\* once, and no slot file is held by two of them.
C7_SemaphoreCapacity ==
    /\ \A p \in SemProcs :
          Cardinality({q \in SemProcs : SemHolds(q)}) <= sem[p].maximum
    /\ \A p, q \in SemProcs :
          (SemHolds(p) /\ SemHolds(q) /\ lock[p].filename = lock[q].filename) => p = q

\* every slot is held and one more process has found a slot contended
C7_Witness ==
    /\ Cardinality({q \in SemProcs : SemHolds(q)}) = Maximum
    /\ \E p \in SemProcs :
          /\ ~SemHolds(p)
          /\ ctl[p].pc = "called" /\ pc[p] = "raised"

\* C8. Semaphore exhaustion: an acquire with fail_when_locked=true that
\* obtains no slot has tried every one of the maximum candidates, each
\* attempt failing at once with AlreadyLocked (no waiting on a slot); it
\* fails with AlreadyLocked, and the semaphore is left holding no Lock, no
\* open handle and no OS lock.
C8_SemaphoreExhaustion ==
    \A p \in SemProcs :
        /\ ctl[p].pc = "called" =>
              /\ pc[p] \in {"returned", "raised"}
              /\ pc[p] = "raised" => exc[p].type = "AlreadyLocked"
        /\ ctl[p].pc = "failed" =>
              /\ exc[p].type = "AlreadyLocked"
              /\ ctl[p].tried = Slots
              /\ sem[p].lock = None
              /\ \A h \in Handles : h[1] = p => fhs[h] = NoFile
              /\ \A f \in Files : flock[f][1] # p

\* the acquire of one process has failed while the others hold every slot
C8_Witness ==
    \E p \in SemProcs :
        /\ ctl[p].pc = "failed"
        /\ \A f \in Slots : \E q \in SemProcs \ {p} : SemHolds(q) /\ lock[q].filename = f

\* C17. Semaphore holds one slot: a semaphore instance never has more than
\* one slot file locked nor more than one handle open; the Lock it records
\* while it holds is the one whose attempt succeeded, with its handle open on
\* that slot and holding its OS lock; and when it does not hold (before
\* acquire(), after a failed acquire(), after release()) none of the slots
\* it tried is locked by it or open.
C17_SemaphoreOneSlot ==
    \A p \in SemProcs :
        /\ Cardinality({f \in Files : flock[f][1] = p}) <= 1
        /\ Cardinality({h \in Handles : h[1] = p /\ fhs[h] # NoFile}) <= 1
        /\ SemHolds(p) =>
              /\ sem[p].lock = Some(lock[p].filename)
              /\ flock[lock[p].filename] = lock[p].fh
              /\ fhs[lock[p].fh] = lock[p].filename
        /\ (ctl[p].pc = "called" /\ pc[p] = "returned") =>
              /\ SemHolds(p)
              /\ lock[p].filename \in ctl[p].tried
        /\ (~SemHolds(p) /\ ctl[p].pc \in {"idle", "failed", "released"}) =>
              /\ \A f \in Files : flock[f][1] # p
              /\ \A h \in Handles : h[1] = p => fhs[h] = NoFile

\* a semaphore has got the slot it tried last, after a contended one that
\* another semaphore still holds
C17_Witness ==
    \E p, q \in SemProcs :
        /\ p # q
        /\ ctl[p].pc = "called" /\ pc[p] = "returned"
        /\ Cardinality(ctl[p].tried) = Maximum
        /\ SemHolds(q) /\ lock[q].filename \in ctl[p].tried

----------------------------------------------------------------------------
(* The scoped-resource protocol of LockBase: "with lock: body".  The with  *)
(* statement calls __enter__(), runs the body, calls __exit__() however    *)
(* the body was left, and re-raises the body's exception unless __exit__() *)
(* returned a true value.                                                  *)

\* what leaves the body: nothing (it completed) or an exception it raised
BodyOutcomes == {NoExc, [type |-> "BodyError", attempt |-> 0]}

ExitReturnTrue == Some(TRUE)

\* line 101: return None
ExitReturn == None

\* the with statement's test of what __exit__() returned
Truthy(v) == v # None /\ v[1] = TRUE

\* lines 184-185: __enter__ is self.acquire()
With_Enter(p) ==
    /\ blk[p].pc = "out"
    /\ Acquire(p, None, None, None)
    /\ blk' = [blk EXCEPT ![p].pc = "enter"]
    /\ UNCHANGED <<sem, ctl>>
    /\ UNCHANGED <<usr, atm>>

\* __enter__() has returned the handle: the body starts
With_Entered(p) ==
    /\ blk[p].pc = "enter"
    /\ pc[p] = "returned"
    /\ Finish(p)
    /\ blk' = [blk EXCEPT ![p].pc = "body"]
    /\ UNCHANGED <<sem, ctl>>
    /\ UNCHANGED <<usr, atm>>

\* __enter__() has raised: the block is not entered, __exit__() is not called
With_NotEntered(p) ==
    /\ blk[p].pc = "enter"
    /\ pc[p] = "raised"
    /\ Finish(p)
    /\ blk' = [blk EXCEPT ![p] = NoBlk]
    /\ UNCHANGED <<sem, ctl>>
    /\ UNCHANGED <<usr, atm>>

\* the body is left, by completing or by raising; lines 99-100: __exit__()
\* calls self.release()
With_Exit(p) ==
    /\ blk[p].pc = "body"
    /\ Release(p)
    /\ \E e \in BodyOutcomes : blk' = [blk EXCEPT ![p].pc = "exit", ![p].pending = e]
    /\ UNCHANGED <<sem, ctl>>
    /\ UNCHANGED <<usr, atm>>

\* __exit__() returns ExitReturn: the with statement is left, with the
\* body's exception unless that value is true
With_Left(p) ==
    /\ blk[p].pc = "exit"
    /\ pc[p] = "returned"
    /\ Finish(p)
    /\ blk' = [blk EXCEPT ![p].pc = "left",
                          ![p].raised = IF Truthy(ExitReturn) THEN NoExc ELSE blk[p].pending]
    /\ UNCHANGED <<sem, ctl>>
    /\ UNCHANGED <<usr, atm>>

\* the program goes on after the with statement
With_Out(p) ==
    /\ blk[p].pc = "left"
    /\ blk' = [blk EXCEPT ![p] = NoBlk]
    /\ UNCHANGED <<lockVars, sem, ctl>>
    /\ UNCHANGED <<usr, atm>>

\* Processes that each construct their own Lock on LockPath, all with the
\* same arguments, and use it as a guarded block
InitWith ==
    /\ InitIdle
    /\ \E t \in Timeouts, c \in Intervals, f \in BOOLEAN :
          lock = [p \in AllProcs |-> LockInit(LockPath, <<"a">>, Some(t), c, f, LOCK_METHOD)]
    /\ sem = [p \in AllProcs |-> NoSem]

NextWith ==
    \/ \E p \in Procs : With_Enter(p)
    \/ \E p \in Procs : Call_Loop(p)
    \/ \E p \in Procs : With_Entered(p)
    \/ \E p \in Procs : With_NotEntered(p)
    \/ \E p \in Procs : With_Exit(p)
    \/ \E p \in Procs : With_Left(p)
    \/ \E p \in Procs : With_Out(p)
    \/ Clock_Tick

SpecWith == InitWith /\ [][NextWith]_vars

\* C9. Scoped release: however the body of a guarded block over a Lock was
\* left (by completing or by raising), once the with statement is left the
\* instance holds no handle, the process has no handle open, the OS lock is
\* not held through the instance, and the body's exception, if any, is
\* raised to the caller (not suppressed).
C9_ScopedRelease ==
    \A p \in Procs :
        blk[p].pc = "left" =>
            /\ lock[p].fh = NoFh
            /\ \A h \in Handles : h[1] = p => fhs[h] = NoFile
            /\ \A f \in Files : flock[f][1] # p
            /\ blk[p].raised = blk[p].pending

\* a block whose body raised has been left, while another process waited
\* for the lock
C9_Witness ==
    \E p \in Procs :
        /\ blk[p].pc = "left"
        /\ blk[p].pending # NoExc
        /\ \E q \in Procs \ {p} : pc[q] = "sleeping"

----------------------------------------------------------------------------
(* open_atomic (lines 45-84): the writers of one target path, each within   *)
(* "with open_atomic(target) as fh: body", and a reader of the target.  A   *)
(* step is one statement, since each of them is a call on the filesystem    *)
(* the reader and the other writers share.  The body writes its content in  *)
(* MaxChunks writes through the buffered handle and completes, or raises    *)
(* at any point.                                                            *)

\* the content of the target: whose it is (0: the old content) and how many
\* of its chunks are there
Content(by, n) == [by |-> by, n |-> n]
Complete(c) == c.n = MaxChunks

TempClosedUnflushed(t) == [t EXCEPT !.open = FALSE]

\* lines 79, 82: temp_file.close() writes the buffer out and closes the handle
TempClosed(t) == [t EXCEPT !.disk = t.disk + t.buf, !.buf = 0, !.open = FALSE]

UnlinkSkipped(t) == t

\* line 83: os.unlink(temp_file.name)
Unlinked(t) == [t EXCEPT !.exists = FALSE, !.disk = 0]

\* lines 72-78: NamedTemporaryFile(delete=False) creates the temporary file
\* and the with statement enters the body with its handle
Atomic_Enter(p) ==
    /\ atm.pc[p] = "out"
    /\ atm' = [atm EXCEPT !.pc[p] = "body",
                          !.temp[p] = [exists |-> TRUE, open |-> TRUE, disk |-> 0, buf |-> 0]]
    /\ UNCHANGED <<lockVars, blk, sem, ctl, usr>>

\* the body: fh.write(chunk), into the handle's buffer
Atomic_Write(p) ==
    /\ atm.pc[p] = "body"
    /\ atm.temp[p].buf < MaxChunks
    /\ atm' = [atm EXCEPT !.temp[p].buf = @ + 1]
    /\ UNCHANGED <<lockVars, blk, sem, ctl, usr>>

\* the body completes: line 79 is next
Atomic_BodyDone(p) ==
    /\ atm.pc[p] = "body"
    /\ atm.temp[p].buf = MaxChunks
    /\ atm' = [atm EXCEPT !.pc[p] = "close"]
    /\ UNCHANGED <<lockVars, blk, sem, ctl, usr>>

\* the body raises: line 81 catches it
Atomic_BodyRaises(p) ==
    /\ atm.pc[p] = "body"
    /\ atm' = [atm EXCEPT !.pc[p] = "except", !.err[p] = "BodyError"]
    /\ UNCHANGED <<lockVars, blk, sem, ctl, usr>>

\* line 79: temp_file.close()
Atomic_Close(p) ==
    /\ atm.pc[p] = "close"
    /\ atm' = [atm EXCEPT !.pc[p] = "rename", !.temp[p] = TempClosed(@)]
    /\ UNCHANGED <<lockVars, blk, sem, ctl, usr>>

\* line 80: os.rename(temp_file.name, filename) replaces the target in one
\* step and the scope is left, or fails and line 81 catches the OSError
Atomic_Rename(p) ==
    /\ atm.pc[p] = "rename"
    /\ \/ atm' = [atm EXCEPT !.pc[p] = "out",
                             !.target = Content(p, atm.temp[p].disk),
                             !.temp[p] = NoTemp]
       \/ atm' = [atm EXCEPT !.pc[p] = "except", !.err[p] = "OSError"]
    /\ UNCHANGED <<lockVars, blk, sem, ctl, usr>>

\* line 82: temp_file.close()
Atomic_ExceptClose(p) ==
    /\ atm.pc[p] = "except"
    /\ atm' = [atm EXCEPT !.pc[p] = "unlink", !.temp[p] = TempClosed(@)]
    /\ UNCHANGED <<lockVars, blk, sem, ctl, usr>>

\* line 83: os.unlink(temp_file.name)
Atomic_ExceptUnlink(p) ==
    /\ atm.pc[p] = "unlink"
    /\ atm' = [atm EXCEPT !.pc[p] = "raise", !.temp[p] = Unlinked(@)]
    /\ UNCHANGED <<lockVars, blk, sem, ctl, usr>>

\* line 84: raise
Atomic_Raise(p) ==
    /\ atm.pc[p] = "raise"
    /\ atm' = [atm EXCEPT !.pc[p] = "failed", !.raised[p] = atm.err[p]]
    /\ UNCHANGED <<lockVars, blk, sem, ctl, usr>>

\* the caller has the exception
Atomic_Failed(p) ==
    /\ atm.pc[p] = "failed"
    /\ atm' = [atm EXCEPT !.pc[p] = "out", !.err[p] = "none", !.raised[p] = "none"]
    /\ UNCHANGED <<lockVars, blk, sem, ctl, usr>>

\* a reader opens the target and reads it
Atomic_Read ==
    /\ atm.seen # atm.target
    /\ atm' = [atm EXCEPT !.seen = atm.target]
    /\ UNCHANGED <<lockVars, blk, sem, ctl, usr>>

InitAtomic ==
    /\ InitIdle
    /\ lock = [p \in AllProcs |-> NoLock]
    /\ sem = [p \in AllProcs |-> NoSem]

NextAtomic ==
    \/ \E p \in Procs : Atomic_Enter(p)
    \/ \E p \in Procs : Atomic_Write(p)
    \/ \E p \in Procs : Atomic_BodyDone(p)
    \/ \E p \in Procs : Atomic_BodyRaises(p)
    \/ \E p \in Procs : Atomic_Close(p)
    \/ \E p \in Procs : Atomic_Rename(p)
    \/ \E p \in Procs : Atomic_ExceptClose(p)
    \/ \E p \in Procs : Atomic_ExceptUnlink(p)
    \/ \E p \in Procs : Atomic_Raise(p)
    \/ \E p \in Procs : Atomic_Failed(p)
    \/ Atomic_Read

SpecAtomic == InitAtomic /\ [][NextAtomic]_vars

\* C11. Atomic replace visibility: at every point of the writers' executions
\* (after a failure too) the target, and so what a reader has read of it, is
\* the complete old content or one writer's complete new content; and the
\* target changes only in the rename step of a writer whose temporary handle
\* is closed.
C11_AtomicVisibility ==
    /\ [](Complete(atm.target) /\ Complete(atm.seen))
    /\ [][atm.target' # atm.target =>
            \E p \in Procs :
                /\ atm.pc[p] = "rename"
                /\ ~atm.temp[p].open
                /\ atm.target' = Content(p, MaxChunks)]_vars

\* a reader has read a writer's new content, and then another writer has
\* failed partway through its body
C11_Witness ==
    \E p, q \in Procs :
        /\ p # q
        /\ atm.seen = Content(p, MaxChunks)
        /\ atm.pc[q] = "failed"
        /\ atm.raised[q] = "BodyError"

\* C12. Atomic replace failure cleanup: when a failure inside the scope (the
\* body's error, or the failing rename) reaches the caller, the temporary
\* handle is closed, no temporary file remains, and the failure raised is
\* the original one; and no step of the writer from the failure on changes
\* the target.
C12_AtomicCleanup ==
    /\ [](\A p \in Procs :
            atm.pc[p] = "failed" =>
                /\ ~atm.temp[p].open
                /\ ~atm.temp[p].exists
                /\ atm.err[p] # "none"
                /\ atm.raised[p] = atm.err[p])
    /\ [][\A p \in Procs :
            (atm.pc[p] \in {"except", "unlink", "raise", "failed"} \/ atm.err'[p] # "none")
                /\ atm.pc'[p] # atm.pc[p]
            => atm.target' = atm.target]_vars

\* a failing rename has reached the caller
C12_Witness ==
    \E p \in Procs :
        /\ atm.pc[p] = "failed"
        /\ atm.raised[p] = "OSError"

----------------------------------------------------------------------------
(* Lock.acquire() where the OS calls may fail for reasons other than        *)
(* contention (permissions, a missing directory, a full disk): processes    *)
(* that each construct their own Lock on LockPath, all with the same        *)
(* arguments.  The failures of different calls do not bear on each other,   *)
(* so one failure in a run is enough.                                       *)

\* the environment fails one OS call of one process
MayFail(p, env) == env # "ok" => \A q \in Procs : ~usr[q].faulted

Fault_Acquire(p) ==
    \E env \in Envs :
        /\ MayFail(p, env)
        /\ AcquireIn(p, None, None, None, env)
        /\ usr' = [usr EXCEPT ![p].faulted = @ \/ env # "ok"]
        /\ UNCHANGED <<blk, sem, ctl, atm>>

Fault_Loop(p) ==
    \E env \in Envs :
        /\ MayFail(p, env)
        /\ LoopIn(p, env)
        /\ usr' = [usr EXCEPT ![p].faulted = @ \/ env # "ok"]
        /\ UNCHANGED <<blk, sem, ctl, atm>>

InitFault ==
    /\ InitIdle
    /\ \E m \in Modes, f \in BOOLEAN :
          lock = [p \in AllProcs |-> LockInit(LockPath, m, Some(1), 1, f, LOCK_METHOD)]
    /\ sem = [p \in AllProcs |-> NoSem]

NextFault ==
    \/ \E p \in Procs : Fault_Acquire(p)
    \/ \E p \in Procs : Fault_Loop(p)
    \/ \E p \in Procs : Call_Release(p)
    \/ \E p \in Procs : Call_Finish(p)
    \/ Clock_Tick

SpecFault == InitFault /\ [][NextFault]_vars

C19_NoLeakOnFailure ==
    \A p \in Procs :
        (op[p] = "acquire" /\ pc[p] = "raised") =>
            /\ \A h \in Handles : (h[1] = p /\ fhs[h] # NoFile) => h = lock[p].fh
            /\ \A f \in Files : flock[f][1] = p => flock[f] = lock[p].fh

----------------------------------------------------------------------------
(* Programs that pass acquire() any arguments: each constructs its own Lock *)
(* on LockPath, all with the same arguments, and remembers what it built    *)
(* and what it passed to the call that is running.                          *)

\* the arguments of acquire() the programs pass
CallTimeoutArgs == {None, Some(0)}
CallIntervalArgs == {None, Some(1)}
CallFailArgs == {None, Some(TRUE)}

\* what Lock.__init__ has set from its arguments
Config(l) ==
    [filename |-> l.filename, mode |-> l.mode, flags |-> l.flags,
     timeout |-> l.timeout, check_interval |-> l.check_interval,
     fail_when_locked |-> l.fail_when_locked]

\* lock.acquire(timeout, check_interval, fail_when_locked)
User_Acquire(p) ==
    /\ \E t \in CallTimeoutArgs, c \in CallIntervalArgs, f \in CallFailArgs :
          /\ Acquire(p, t, c, f)
          /\ usr' = [usr EXCEPT ![p].args = <<t, c, f>>,
                                ![p].overrode = @ \/ <<t, c, f>> # <<None, None, None>>]
    /\ UNCHANGED <<blk, sem, ctl, atm>>

\* the call is over
User_Finish(p) ==
    /\ Finish(p)
    /\ usr' = [usr EXCEPT ![p].args = <<None, None, None>>]
    /\ UNCHANGED <<blk, sem, ctl, atm>>

\* the state before any call, of Locks built with the arguments in built
InitBuilt(built) ==
    /\ now = [p \in AllProcs |-> 0]
    /\ pc = [p \in AllProcs |-> "idle"]
    /\ op = [p \in AllProcs |-> "none"]
    /\ loc = [p \in AllProcs |-> NoLocals]
    /\ wake = [p \in AllProcs |-> 0]
    /\ exc = [p \in AllProcs |-> NoExc]
    /\ obs = [p \in AllProcs |-> NoObs]
    /\ fhs = [h \in Handles |-> NoFile]
    /\ flock = [f \in Files |-> NoFh]
    /\ content = [f \in Files |-> "data"]
    /\ blk = [p \in AllProcs |-> NoBlk]
    /\ ctl = [p \in AllProcs |-> NoCtl]
    /\ atm = NoAtm
    /\ sem = [p \in AllProcs |-> NoSem]
    /\ lock = [p \in AllProcs |-> built]
    /\ usr = [p \in AllProcs |-> [NoUsr EXCEPT !.built = Config(built)]]

InitCall ==
    \E f \in BOOLEAN :
        InitBuilt(LockInit(LockPath, <<"a">>, Some(MaxTimeout), MaxInterval, f, LOCK_METHOD))

NextCall ==
    \/ \E p \in Procs : User_Acquire(p)
    \/ \E p \in Procs : Call_Loop(p)
    \/ \E p \in Procs : Call_Release(p)
    \/ \E p \in Procs : User_Finish(p)
    \/ Clock_Tick

SpecCall == InitCall /\ [][NextCall]_vars

\* C15. Per-call overrides leave the instance unchanged: the timeout,
\* check_interval and fail_when_locked a running acquire() works with are
\* the arguments it was passed, and the construction-time values where none
\* was passed; and the instance's filename, mode, flags, timeout,
\* check_interval and fail_when_locked are at all times those of its
\* construction, whatever calls were made with whatever arguments.
C15_OverridesPerCall ==
    \A p \in Procs :
        /\ Config(lock[p]) = usr[p].built
        /\ op[p] = "acquire" =>
              /\ loc[p].timeout =
                    IF usr[p].args[1] = None THEN usr[p].built.timeout ELSE usr[p].args[1][1]
              /\ loc[p].check_interval =
                    IF usr[p].args[2] = None THEN usr[p].built.check_interval
                    ELSE usr[p].args[2][1]
              /\ loc[p].fail_when_locked =
                    IF usr[p].args[3] = None THEN usr[p].built.fail_when_locked
                    ELSE usr[p].args[3][1]

\* after a call made with overriding arguments, an acquire() without
\* arguments is waiting with the construction-time values
C15_Witness ==
    \E p \in Procs :
        /\ usr[p].overrode
        /\ op[p] = "acquire" /\ pc[p] = "sleeping"
        /\ usr[p].args = <<None, None, None>>
        /\ loc[p].timeout = MaxTimeout
        /\ loc[p].check_interval = MaxInterval
        /\ ~loc[p].fail_when_locked

----------------------------------------------------------------------------
(* Programs that use one Lock each on LockPath again and again, and count   *)
(* the times they have released the lock they held.                         *)

\* lock.acquire()
Round_Acquire(p) ==
    /\ usr[p].rounds < MaxRounds
    /\ Acquire(p, None, None, None)
    /\ UNCHANGED callerVars

\* lock.release()
Round_Release(p) ==
    /\ Release(p)
    /\ usr' = [usr EXCEPT ![p].rounds = IF Held(p) THEN @ + 1 ELSE @]
    /\ UNCHANGED <<blk, sem, ctl, atm>>

InitRound ==
    \E f \in BOOLEAN :
        InitBuilt(LockInit(LockPath, <<"a">>, Some(1), 1, f, LOCK_METHOD))

NextRound ==
    \/ \E p \in Procs : Round_Acquire(p)
    \/ \E p \in Procs : Call_Loop(p)
    \/ \E p \in Procs : Round_Release(p)
    \/ \E p \in Procs : Call_Finish(p)
    \/ Clock_Tick

SpecRound == InitRound /\ [][NextRound]_vars

\* C16. Acquire/release round trip: a release() of a held Lock leaves its
\* handle closed and without the OS lock, the Lock without a handle and the
\* OS lock on the path free; a Lock that is not held has no handle open,
\* whatever the number of round trips made, so that it can open one again;
\* and an acquire() made while the OS lock on the path is free returns the
\* locked handle.
C16_RoundTrip ==
    /\ [](\A p \in Procs :
            (pc[p] = "idle" /\ ~Held(p)) =>
                \A h \in Handles : h[1] = p => fhs[h] = NoFile)
    /\ [][\A p \in Procs :
            /\ (pc[p] = "idle" /\ op'[p] = "release" /\ Held(p)) =>
                  /\ pc'[p] = "returned"
                  /\ fhs'[lock[p].fh] = NoFile
                  /\ lock'[p].fh = NoFh
                  /\ flock'[lock[p].filename] = NoFh
            /\ (pc[p] = "idle" /\ op'[p] = "acquire" /\ flock[lock[p].filename] = NoFh) =>
                  /\ pc'[p] = "returned"
                  /\ Held(p)'
                  /\ flock'[lock[p].filename] = lock'[p].fh
                  /\ fhs'[lock'[p].fh] = lock[p].filename]_vars

\* two Locks have each been through a round trip, and one is held again
C16_Witness ==
    \E p, q \in Procs :
        /\ p # q
        /\ usr[p].rounds = MaxRounds - 1
        /\ usr[q].rounds > 0
        /\ Held(p)
        /\ flock[lock[p].filename] = lock[p].fh

----------------------------------------------------------------------------
(* Termination of Lock.acquire.  Processes that each hold their own Lock   *)
(* on LockPath call acquire() and release() in any order and at any time,  *)
(* or never again: a holder may keep the lock for ever, or release and     *)
(* re-acquire between two polls of another process.  What is assumed is    *)
(* that a call in progress goes on (a sleep that is over is followed by    *)
(* the next attempt, a result reaches the caller) and that time advances.  *)

InitLive ==
    \E t \in Timeouts, c \in Intervals, f \in BOOLEAN :
        InitBuilt(LockInit(LockPath, <<"a">>, Some(t), c, f, LOCK_METHOD))

\* lock.acquire()
Live_Acquire(p) == Acquire(p, None, None, None) /\ UNCHANGED callerVars

NextLive ==
    \/ \E p \in Procs : Live_Acquire(p)
    \/ \E p \in Procs : Call_Loop(p)
    \/ \E p \in Procs : Call_Release(p)
    \/ \E p \in Procs : Call_Finish(p)
    \/ Clock_Tick

\* some call is in time.sleep (line 169) and its sleep is not over
Waiting == \E p \in Procs : pc[p] = "sleeping" /\ wake[p] > now[p]

\* time advances: the calls that the other processes make while a process
\* sleeps do not take place all at one instant for ever
TimeAdvances == []<>(~Waiting) \/ []<><<Clock_Tick>>_vars

\* line 169: time.sleep(check_interval) returns; lines 170-177 and 180-182
\* follow the sleep, and a return or raise reaches the caller
Fairness ==
    /\ TimeAdvances
    /\ \A p \in Procs : WF_vars(Call_Loop(p)) /\ WF_vars(Call_Finish(p))

SpecLive == InitLive /\ [][NextLive]_vars /\ Fairness

\* C20. Acquire terminates: with non-blocking flags, a finite timeout >= 0
\* and check_interval > 0, every acquire() that has to wait eventually
\* returns or raises, whatever the other processes do; while it waits its
\* clock never passes timeout_end + check_interval; with fail_when_locked
\* false it raises only the timeout's LockException and only after at least
\* 2 lock attempts; and when it returns, the handle it returns is the one of
\* the first attempt that succeeded: every earlier attempt was followed by a
\* sleep, that handle holds the OS lock, and no other handle of the process
\* is open.
C20_AcquireTerminates ==
    /\ \A p \in Procs :
          (op[p] = "acquire" /\ pc[p] = "sleeping") ~> (pc[p] \in {"returned", "raised"})
    /\ [](\A p \in Procs :
            op[p] = "acquire" =>
              /\ pc[p] \in {"sleeping", "returned", "raised"}
              /\ pc[p] = "sleeping" =>
                    /\ now[p] <= wake[p]
                    /\ wake[p] <= loc[p].timeout_end + loc[p].check_interval
              /\ (pc[p] = "raised" /\ ~loc[p].fail_when_locked) =>
                    /\ exc[p].type = "LockException"
                    /\ obs[p].attempts >= 2
              /\ pc[p] = "returned" =>
                    /\ lock[p].fh = loc[p].fh
                    /\ flock[lock[p].filename] = lock[p].fh
                    /\ obs[p].sleeps = obs[p].attempts - 1
                    /\ \A h \in Handles :
                          (h[1] = p /\ fhs[h] # NoFile) => h = lock[p].fh)

\* a call has returned the handle of its third attempt, after two sleeps
C20_Witness ==
    \E p \in Procs :
        /\ op[p] = "acquire" /\ pc[p] = "returned"
        /\ obs[p].attempts >= 3
        /\ flock[lock[p].filename] = lock[p].fh

====
